---------------------------- MODULE Spec2Model ----------------------------
(*
  A model of the chat backend in src/chatbot-app/api: the session/identity
  layer (auth.py), the chat endpoint with its completion gateway, context
  window builder and fallback responder and the push-channel presence
  handlers (index.py), and the list paginator (utils.py).

  Python strings are modelled as sequences of one-character strings, so that
  substring search, slicing, lower-casing and regular-expression stripping are
  computed character by character as the code computes them.  None is the
  one-element sequence <<"None">>, which no character sequence equals.
*)
EXTENDS Integers, Sequences, FiniteSets, TLC

VARIABLES
  users,          \* users_collection: sequence of user documents, _id = index
  session,        \* per client: the user id the session is bound to, 0 = anonymous
  pc,             \* per client: position of the request handler in flight
  req,            \* per client: the locals of the handler in flight
  resp,           \* the last HTTP response sent
  conversations,  \* conversations_collection: sequence of turn documents
  now,            \* the value datetime.now() returns
  gemini_model,   \* the module-level gemini_model: "configured" or "None"
  fb_message,     \* fallback responder: the message argument
  fb_hour,        \* fallback responder: the hour of datetime.now(ist)
  fb_result,      \* fallback responder: what the call returned or raised
  fb_done,        \* fallback responder: the call has been made
  ctx_history,    \* context builder: the history argument
  ctx_result,     \* context builder: the returned string
  ctx_done,       \* context builder: the call has been made
  pg_items,       \* paginator: the items argument
  pg_limit,       \* paginator: the limit argument
  pg_offset,      \* paginator: the offset argument
  pg_result,      \* paginator: the returned dict
  pg_done,        \* paginator: the call has been made
  connections,    \* push channel: per connection id, whether it is open and its user
  rooms,          \* push channel: per user id, the connections in that user's room
  emitted         \* push channel: the events the last handler published

authVars == <<users, session, pc, req, resp, conversations, now, gemini_model>>
fbVars   == <<fb_message, fb_hour, fb_result, fb_done>>
ctxVars  == <<ctx_history, ctx_result, ctx_done>>
pgVars   == <<pg_items, pg_limit, pg_offset, pg_result, pg_done>>
sockVars == <<connections, rooms, emitted>>
vars     == <<authVars, fbVars, ctxVars, pgVars, sockVars>>

-----------------------------------------------------------------------------
(* Python string primitives *)

None == <<"None">>

Min(a, b) == IF a < b THEN a ELSE b
Max(a, b) == IF a > b THEN a ELSE b

UpperCase == <<"A", "B", "C", "D", "E", "F", "G", "H", "I", "J", "K", "L", "M", "N", "O", "P", "Q", "R", "S", "T", "U", "V", "W", "X", "Y", "Z">>
LowerCase == <<"a", "b", "c", "d", "e", "f", "g", "h", "i", "j", "k", "l", "m", "n", "o", "p", "q", "r", "s", "t", "u", "v", "w", "x", "y", "z">>
Digits    == <<"0", "1", "2", "3", "4", "5", "6", "7", "8", "9">>

Range(s) == {s[i] : i \in 1..Len(s)}

\* str.lower() on one character
LowerChar(c) ==
  IF c \in Range(UpperCase)
  THEN LowerCase[CHOOSE i \in 1..Len(UpperCase) : UpperCase[i] = c]
  ELSE c

\* str.lower()
lower(s) == [i \in 1..Len(s) |-> LowerChar(s[i])]

\* Python's `w in s` for strings
Contains(s, w) ==
  \E i \in 1..(Len(s) - Len(w) + 1) : SubSeq(s, i, i + Len(w) - 1) = w

\* any(word in s for word in words)
AnyIn(words, s) == \E k \in 1..Len(words) : Contains(s, words[k])

\* any(char in s for char in chars)
AnyCharIn(chars, s) == \E k \in 1..Len(chars) : chars[k] \in Range(s)

Whitespace == {" ", "\n", "\t"}

RECURSIVE lstrip(_)
lstrip(s) == IF s # <<>> /\ Head(s) \in Whitespace THEN lstrip(Tail(s)) ELSE s

RECURSIVE rstrip(_)
rstrip(s) ==
  IF s # <<>> /\ s[Len(s)] \in Whitespace
  THEN rstrip(SubSeq(s, 1, Len(s) - 1))
  ELSE s

\* str.strip()
strip(s) == rstrip(lstrip(s))

\* str.endswith(c) for a one-character suffix
endswith(s, c) == s # <<>> /\ s[Len(s)] = c

\* s[:n] for n >= 0
Prefix(s, n) == SubSeq(s, 1, Min(n, Len(s)))

-----------------------------------------------------------------------------
(* Arithmetic evaluation: eval(expr) on the stripped expression.

   A value is a rational n/d (d > 0, in lowest terms) with the flag float,
   which Python sets once a true division has taken part.  The evaluator
   covers integer literals, unary and binary + and -, *, /, // and
   parenthesised expressions, the forms the messages of Tokens can produce
   (they hold no ".", no "**" and no "()").  An input that is no complete
   expression of this grammar makes the call raise, as a SyntaxError does in
   the code; so do a division by zero (ZeroDivisionError) and a literal
   applied to a parenthesis (TypeError). *)

RECURSIVE GCD(_, _)
GCD(a, b) == IF b = 0 THEN a ELSE GCD(b, a % b)

Abs(a) == IF a < 0 THEN -a ELSE a

Rat(n, d, f) ==
  LET g == GCD(Abs(n), Abs(d))
      sgn == IF d < 0 THEN -1 ELSE 1
  IN  [n |-> sgn * (n \div g), d |-> sgn * (d \div g), float |-> f]

IntVal(n) == [n |-> n, d |-> 1, float |-> FALSE]

NoValue == IntVal(0)

Add(a, b)  == Rat(a.n * b.d + b.n * a.d, a.d * b.d, a.float \/ b.float)
Sub(a, b)  == Rat(a.n * b.d - b.n * a.d, a.d * b.d, a.float \/ b.float)
Mul(a, b)  == Rat(a.n * b.n, a.d * b.d, a.float \/ b.float)
TrueDiv(a, b)  == Rat(a.n * b.d, a.d * b.n, TRUE)
FloorDiv(a, b) ==
  LET q == Rat(a.n * b.d, a.d * b.n, FALSE)
  IN  Rat(q.n \div q.d, 1, a.float \/ b.float)
Neg(a)     == [n |-> -a.n, d |-> a.d, float |-> a.float]

IsDigit(c) == c \in Range(Digits)

DigitVal(c) == (CHOOSE i \in 1..Len(Digits) : Digits[i] = c) - 1

RECURSIVE DigitsToInt(_)
DigitsToInt(ds) ==
  IF ds = <<>> THEN 0
  ELSE 10 * DigitsToInt(SubSeq(ds, 1, Len(ds) - 1)) + DigitVal(ds[Len(ds)])

\* the first position at or after i that holds no digit
RECURSIVE DigitsEnd(_, _)
DigitsEnd(s, i) == IF i <= Len(s) /\ IsDigit(s[i]) THEN DigitsEnd(s, i + 1) ELSE i

ParseFail == [ok |-> FALSE, v |-> NoValue, i |-> 0]

\* an integer literal: a leading zero is allowed only when every digit is zero
ParseNumber(s, i) ==
  LET j  == DigitsEnd(s, i)
      ds == SubSeq(s, i, j - 1)
  IN  IF ds = <<>> THEN ParseFail
      ELSE IF Len(ds) > 1 /\ ds[1] = "0" /\ Range(ds) # {"0"} THEN ParseFail
      ELSE [ok |-> TRUE, v |-> IntVal(DigitsToInt(ds)), i |-> j]

RECURSIVE ParseExpr(_, _)
RECURSIVE ParseTerm(_, _)
RECURSIVE ParseFactor(_, _)
RECURSIVE ExprTail(_, _, _)
RECURSIVE TermTail(_, _, _)

ParseAtom(s, i) ==
  IF i > Len(s) THEN ParseFail
  ELSE IF s[i] = "("
    THEN LET r == ParseExpr(s, i + 1)
         IN  IF r.ok /\ r.i <= Len(s) /\ s[r.i] = ")"
             THEN [ok |-> TRUE, v |-> r.v, i |-> r.i + 1]
             ELSE ParseFail
  ELSE IF IsDigit(s[i]) THEN ParseNumber(s, i)
  ELSE ParseFail

ParseFactor(s, i) ==
  IF i <= Len(s) /\ s[i] \in {"+", "-"}
  THEN LET r == ParseFactor(s, i + 1)
       IN  IF ~r.ok THEN ParseFail
           ELSE [ok |-> TRUE, v |-> IF s[i] = "-" THEN Neg(r.v) ELSE r.v, i |-> r.i]
  ELSE ParseAtom(s, i)

TermTail(s, acc, i) ==
  IF i <= Len(s) /\ s[i] \in {"*", "/"}
  THEN LET floor == s[i] = "/" /\ i < Len(s) /\ s[i + 1] = "/"
           r     == ParseFactor(s, IF floor THEN i + 2 ELSE i + 1)
       IN  IF ~r.ok THEN ParseFail
           ELSE IF s[i] = "/" /\ r.v.n = 0 THEN ParseFail   \* ZeroDivisionError
           ELSE TermTail(s,
                         IF floor THEN FloorDiv(acc, r.v)
                         ELSE IF s[i] = "/" THEN TrueDiv(acc, r.v)
                         ELSE Mul(acc, r.v),
                         r.i)
  ELSE [ok |-> TRUE, v |-> acc, i |-> i]

ParseTerm(s, i) ==
  LET r == ParseFactor(s, i)
  IN  IF r.ok THEN TermTail(s, r.v, r.i) ELSE ParseFail

ExprTail(s, acc, i) ==
  IF i <= Len(s) /\ s[i] \in {"+", "-"}
  THEN LET r == ParseTerm(s, i + 1)
       IN  IF ~r.ok THEN ParseFail
           ELSE ExprTail(s, IF s[i] = "+" THEN Add(acc, r.v) ELSE Sub(acc, r.v), r.i)
  ELSE [ok |-> TRUE, v |-> acc, i |-> i]

ParseExpr(s, i) ==
  LET r == ParseTerm(s, i)
  IN  IF r.ok THEN ExprTail(s, r.v, r.i) ELSE ParseFail

\* eval(expr): the value, or raises when expr is no complete expression
eval(expr) ==
  LET r == ParseExpr(expr, 1)
  IN  IF r.ok /\ r.i = Len(expr) + 1
      THEN [raises |-> FALSE, value |-> r.v]
      ELSE [raises |-> TRUE, value |-> NoValue]

-----------------------------------------------------------------------------
(* The fallback responder, index.py get_smart_fallback *)

\* the keyword lists of the rules, in the order the code writes them
TimeWords       == << <<"t", "i", "m", "e">>, <<"w", "h", "a", "t", " ", "t", "i", "m", "e">>, <<"w", "h", "a", "t", "'", "s", " ", "t", "h", "e", " ", "t", "i", "m", "e">>, <<"c", "l", "o", "c", "k">> >>
DateWords       == << <<"d", "a", "t", "e">>, <<"w", "h", "a", "t", " ", "d", "a", "t", "e">>, <<"t", "o", "d", "a", "y">>, <<"w", "h", "a", "t", "'", "s", " ", "t", "o", "d", "a", "y">>, <<"d", "a", "y">> >>
GreetingWords   == << <<"h", "i">>, <<"h", "e", "l", "l", "o">>, <<"h", "e", "y">>, <<"g", "o", "o", "d", " ", "m", "o", "r", "n", "i", "n", "g">>, <<"g", "o", "o", "d", " ", "e", "v", "e", "n", "i", "n", "g">>,
                      <<"g", "o", "o", "d", " ", "a", "f", "t", "e", "r", "n", "o", "o", "n">>, <<"s", "u", "p">>, <<"y", "o">> >>
IdentityPhrases == << <<"w", "h", "o", " ", "a", "r", "e", " ", "y", "o", "u">>, <<"w", "h", "a", "t", " ", "a", "r", "e", " ", "y", "o", "u">>, <<"y", "o", "u", "r", " ", "n", "a", "m", "e">>,
                      <<"w", "h", "a", "t", "'", "s", " ", "y", "o", "u", "r", " ", "n", "a", "m", "e">> >>
CapabilityPhrases == << <<"w", "h", "a", "t", " ", "c", "a", "n", " ", "y", "o", "u", " ", "d", "o">>, <<"h", "e", "l", "p", " ", "m", "e">>, <<"c", "a", "p", "a", "b", "i", "l", "i", "t", "i", "e", "s">>,
                        <<"f", "e", "a", "t", "u", "r", "e", "s">> >>
MathChars       == << "+", "-", "*", "/", "=" >>
ThanksWords     == << <<"t", "h", "a", "n", "k">>, <<"t", "h", "a", "n", "k", "s">>, <<"t", "h", "x">>, <<"t", "y">>, <<"a", "p", "p", "r", "e", "c", "i", "a", "t", "e">> >>
GoodbyeWords    == << <<"b", "y", "e">>, <<"g", "o", "o", "d", "b", "y", "e">>, <<"s", "e", "e", " ", "y", "o", "u">>, <<"g", "o", "o", "d", " ", "n", "i", "g", "h", "t">>, <<"g", "t", "g">>,
                      <<"g", "o", "t", "t", "a", " ", "g", "o">> >>

ThanksResponses ==
  << "You're very welcome! Anything else I can help with?",
     "Happy to help! Feel free to ask me anything else!",
     "My pleasure! What else would you like to know?",
     "Anytime! I'm here whenever you need assistance!" >>

GoodbyeResponses ==
  << "Goodbye! It was great chatting with you. Come back anytime!",
     "See you later! Feel free to return whenever you need help!",
     "Take care! I'll be here when you need me!",
     "Bye! Have a wonderful day/night! Come back soon!" >>

\* the time-of-day greeting
Greeting(hour) ==
  IF hour < 12 THEN "Good morning"
  ELSE IF hour < 17 THEN "Good afternoon"
  ELSE "Good evening"

\* the characters the regular expression [^0-9+\-*/().] leaves in place
ExprChars == Range(Digits) \cup {"+", "-", "*", "/", "(", ")", "."}

StripExprKeepEq(message) ==
  SelectSeq(message, LAMBDA c : c \in ExprChars \cup {"="})

\* re.sub(r'[^0-9+\-*/().]', '', message)
StripExpr(message) == SelectSeq(message, LAMBDA c : c \in ExprChars)

(* A returned string is the record of the rule that produced it, the
   literal text of its template (without the emoji), and the values the
   template interpolates: the message, the calculation result, the clock.
   A call that raises is the record with raises = TRUE. *)
Answer(rule, text, msg, value, hour) ==
  [raises |-> FALSE, rule |-> rule, text |-> text, msg |-> msg,
   value |-> value, hour |-> hour]

Raised(exc) ==
  [raises |-> TRUE, rule |-> exc, text |-> "", msg |-> <<>>,
   value |-> NoValue, hour |-> 0]

MathHelp ==
  Answer("math_help",
         "I can help with math! Try:\n'What is 25 x 48?'\n'Calculate 156 / 12'\n'(5 + 3) x 2'",
         <<>>, NoValue, 0)

\* the arithmetic rule, lines 260-269: try/except around strip and eval
MathRule(message) ==
  LET expr == StripExpr(message)
  IN  IF expr # <<>> /\ Len(expr) > 1
      THEN LET result == eval(expr)
           IN  IF result.raises
               THEN MathHelp
               ELSE Answer("math_result",
                           "Calculation Result: {result}\n\nNeed any other calculations or math help?",
                           <<>>, result.value, 0)
      ELSE MathHelp

TimeAnswer(hour) ==
  Answer("time",
         "The current time is **{%I:%M %p}** IST on {%B %d, %Y} ({%A}). How else can I help you?",
         <<>>, NoValue, hour)

DateAnswer(hour) ==
  Answer("date", "Today is **{%A, %B %d, %Y}**. What would you like to know?",
         <<>>, NoValue, hour)

GreetingAnswer(hour) ==
  Answer("greeting",
         Greeting(hour) \o "! I'm your AI Companion powered by Google Gemini 2.5 Flash. I can help you with:\n\nAnswering questions\nExplaining concepts\nCreating content\nHaving conversations\nProblem-solving\n\nWhat would you like to explore?",
         <<>>, NoValue, 0)

IdentityAnswer ==
  Answer("identity",
         "I'm **AI Companion, powered by Google's latest **Gemini 2.5 Flash model! What can I help you with today?",
         <<>>, NoValue, 0)

CapabilityAnswer ==
  Answer("capability",
         "I'm powered by Google Gemini 2.5 Flash and can help you with: Knowledge & Learning, Content Creation, Problem Solving, Conversation. What would you like to try?",
         <<>>, NoValue, 0)

ThanksAnswer(pick)  == Answer("thanks", ThanksResponses[pick + 1], <<>>, NoValue, 0)

GoodbyeAnswer(pick) == Answer("goodbye", GoodbyeResponses[pick + 1], <<>>, NoValue, 0)

QuestionAnswer(message) ==
  Answer("question",
         "Great question! You asked: \"{message}\"** I'm powered by Gemini 2.5 Flash and I'd love to help answer this!",
         message, NoValue, 0)

DefaultAnswer(message) ==
  Answer("default",
         "I hear you: \"{message}\"** I'm your AI Companion powered by Gemini 2.5 Flash!",
         message, NoValue, 0)

\* the cascade with the greeting rule tested first, before the time rule
FallbackGreetingFirst(message, hour, pick) ==
  IF message = None THEN Raised("AttributeError")
  ELSE
  LET message_lower == lower(message) IN
  IF AnyIn(GreetingWords, message_lower) THEN GreetingAnswer(hour)
  ELSE IF AnyIn(TimeWords, message_lower) THEN TimeAnswer(hour)
  ELSE IF AnyIn(DateWords, message_lower) THEN DateAnswer(hour)
  ELSE IF AnyIn(IdentityPhrases, message_lower) THEN IdentityAnswer
  ELSE IF AnyIn(CapabilityPhrases, message_lower) THEN CapabilityAnswer
  ELSE IF AnyCharIn(MathChars, message) THEN MathRule(message)
  ELSE IF AnyIn(ThanksWords, message_lower) THEN ThanksAnswer(pick)
  ELSE IF AnyIn(GoodbyeWords, message_lower) THEN GoodbyeAnswer(pick)
  ELSE IF endswith(strip(message), "?") THEN QuestionAnswer(message)
  ELSE DefaultAnswer(message)

(* get_smart_fallback(message): hour is datetime.now(ist).hour, pick the index
   random.choice draws.  message.lower() raises AttributeError on None. *)
get_smart_fallback(message, hour, pick) ==
  IF message = None THEN Raised("AttributeError")
  ELSE
  LET message_lower == lower(message) IN
  IF AnyIn(TimeWords, message_lower) THEN TimeAnswer(hour)
  ELSE IF AnyIn(DateWords, message_lower) THEN DateAnswer(hour)
  ELSE IF AnyIn(GreetingWords, message_lower) THEN GreetingAnswer(hour)
  ELSE IF AnyIn(IdentityPhrases, message_lower) THEN IdentityAnswer
  ELSE IF AnyIn(CapabilityPhrases, message_lower) THEN CapabilityAnswer
  ELSE IF AnyCharIn(MathChars, message) THEN MathRule(message)
  ELSE IF AnyIn(ThanksWords, message_lower) THEN ThanksAnswer(pick)
  ELSE IF AnyIn(GoodbyeWords, message_lower) THEN GoodbyeAnswer(pick)
  ELSE IF endswith(strip(message), "?") THEN QuestionAnswer(message)
  ELSE DefaultAnswer(message)

-----------------------------------------------------------------------------
(* Inputs of the fallback responder: the messages are the concatenations of
   at most MaxTokens of these fragments, and None (a request body with no
   `message` field, index.py line 86). *)

MaxTokens == 3

Tokens ==
  { <<"h", "e", "l", "l", "o", ",", " ">>, <<"w", "h", "a", "t", " ", "t", "i", "m", "e", " ", "i", "s", " ", "i", "t">>, <<"?">>, <<"w", "h", "a", "t", " ", "i", "s", " ">>, <<"2", "+", "2", "=", "4">>, <<"2", " ", "+", " ", "2">>,
    <<"/", "0">>, <<"(", "5", "+", "3", ")", "*", "2", " ">>, <<"T", "h", "a", "n", "k", "s">>, <<"b", "y", "e">>, <<"h", "e", "l", "p", " ", "m", "e">>, <<"t", "o", "d", "a", "y">>, <<"o", "k">> }

RECURSIVE Concat(_)
Concat(ts) == IF ts = <<>> THEN <<>> ELSE Head(ts) \o Concat(Tail(ts))

Messages ==
  {None} \cup
  UNION { {Concat(ts) : ts \in [1..n -> Tokens]} : n \in 0..MaxTokens }

Hours == {9, 14, 20}

\* the variables of the other components, at rest
InitAuthIdle ==
  /\ users = <<>> /\ session = <<>> /\ pc = <<>> /\ req = <<>>
  /\ resp = <<>> /\ conversations = <<>> /\ now = 0 /\ gemini_model = "None"

InitCtxIdle == ctx_history = <<>> /\ ctx_result = <<>> /\ ctx_done = FALSE

InitPgIdle ==
  /\ pg_items = <<>> /\ pg_limit = 0 /\ pg_offset = 0
  /\ pg_result = <<>> /\ pg_done = FALSE

InitFbIdle ==
  /\ fb_message = <<>> /\ fb_hour = 0 /\ fb_result = Raised("") /\ fb_done = FALSE

InitSockIdle == connections = <<>> /\ rooms = <<>> /\ emitted = <<>>

InitFallback ==
  /\ fb_message \in Messages
  /\ fb_hour \in Hours
  /\ fb_result = Raised("")
  /\ fb_done = FALSE
  /\ InitCtxIdle /\ InitPgIdle /\ InitAuthIdle /\ InitSockIdle

\* one call of the fallback responder
CallFallback ==
  /\ ~fb_done
  /\ \E pick \in 0..(Len(ThanksResponses) - 1) :
       fb_result' = get_smart_fallback(fb_message, fb_hour, pick)
  /\ fb_done' = TRUE
  /\ UNCHANGED <<fb_message, fb_hour, authVars, ctxVars, pgVars, sockVars>>

NextFallback == CallFallback

SpecFallback == InitFallback /\ [][NextFallback]_vars

-----------------------------------------------------------------------------
(* Claims about the fallback responder, checked under SpecFallback *)

\* C2: the fallback responder is total: for every message the chat endpoint
\* can pass to it, a request body with no `message` field included, the call
\* returns a string and never raises.
C2_FallbackTotal == fb_done => ~fb_result.raises

\* which of the ten rules, in the order the claim gives them, message m matches
RuleMatches(m) ==
  LET ml == lower(m)
  IN  << AnyIn(TimeWords, ml), AnyIn(DateWords, ml), AnyIn(GreetingWords, ml),
         AnyIn(IdentityPhrases, ml), AnyIn(CapabilityPhrases, ml),
         AnyCharIn(MathChars, m), AnyIn(ThanksWords, ml), AnyIn(GoodbyeWords, ml),
         endswith(strip(m), "?"), TRUE >>

\* the responses rule i can give to message m at the given hour
RuleResponses(i, m, hour) ==
  CASE i = 1  -> {TimeAnswer(hour)}
    [] i = 2  -> {DateAnswer(hour)}
    [] i = 3  -> {GreetingAnswer(hour)}
    [] i = 4  -> {IdentityAnswer}
    [] i = 5  -> {CapabilityAnswer}
    [] i = 6  -> {MathRule(m)}
    [] i = 7  -> {ThanksAnswer(p) : p \in 0..3}
    [] i = 8  -> {GoodbyeAnswer(p) : p \in 0..3}
    [] i = 9  -> {QuestionAnswer(m)}
    [] i = 10 -> {DefaultAnswer(m)}

HelloWhatTime == <<"h", "e", "l", "l", "o", ",", " ", "w", "h", "a", "t", " ", "t", "i", "m", "e", " ", "i", "s", " ", "i", "t", "?">>

\* C3: the rules are evaluated in the order time, date, greeting, identity,
\* capability, arithmetic, thanks, farewell, question, default, and the first
\* matching rule alone determines the answer, whatever later rules match;
\* "hello, what time is it?" gets the time answer.
C3_FirstMatchWins ==
  (fb_done /\ fb_message # None) =>
     /\ \A matches \in {RuleMatches(fb_message)} :
          \A i \in 1..10 :
            (matches[i] /\ \A j \in 1..(i - 1) : ~matches[j])
              => fb_result \in RuleResponses(i, fb_message, fb_hour)
     /\ fb_message = HelloWhatTime => fb_result.rule = "time"

\* C3 witness: "hello, what time is it?", which matches the time rule and the
\* later greeting and question rules, has been answered.
C3_Witness ==
  /\ fb_done /\ fb_message = HelloWhatTime
  /\ RuleMatches(fb_message)[1] /\ RuleMatches(fb_message)[3]
  /\ RuleMatches(fb_message)[9]
  /\ fb_result.rule = "time"

WhatIs2Plus2Eq4 == <<"w", "h", "a", "t", " ", "i", "s", " ", "2", "+", "2", "=", "4", "?">>

\* C4 as claimed: for "what is 2+2=4?" the extracted expression is "2+2=4",
\* its evaluation fails, and the response is the generic math-help string.
C4_Original ==
  (fb_done /\ fb_message = WhatIs2Plus2Eq4) =>
     /\ StripExpr(fb_message) = <<"2", "+", "2", "=", "4">>
     /\ eval(StripExpr(fb_message)).raises
     /\ fb_result = MathHelp

\* C4 as amended: for "what is 2+2=4?" the extracted expression is "2+24"
\* (stripping removes "="), its evaluation gives 26, and the response is the
\* calculation result for 26, not the math-help string.
C4_Amended ==
  (fb_done /\ fb_message = WhatIs2Plus2Eq4) =>
     /\ StripExpr(fb_message) = <<"2", "+", "2", "4">>
     /\ ~eval(StripExpr(fb_message)).raises
     /\ fb_result.rule = "math_result"
     /\ fb_result.value = IntVal(26)
     /\ fb_result # MathHelp

\* C4 witness: "what is 2+2=4?" has been answered by the arithmetic rule.
C4_Witness ==
  /\ fb_done /\ fb_message = WhatIs2Plus2Eq4
  /\ fb_result.rule \in {"math_result", "math_help"}

-----------------------------------------------------------------------------
(* The context window builder, index.py build_conversation_context *)

HistoryLimit == 10     \* .limit(10) of the history query

ContextTurns == 8      \* list(history)[:8]

ContentLimit == 250    \* msg['content'][:250]

Header == <<"C", "o", "n", "v", "e", "r", "s", "a", "t", "i", "o", "n", " ", "h", "i", "s", "t", "o", "r", "y", ":", "\n">>

\* reversed(s)
reversed(s) == [i \in 1..Len(s) |-> s[Len(s) + 1 - i]]

\* one line of the context: f"{role}: {content}\n"
RenderTurn(msg) ==
  LET role    == IF msg.role = "user" THEN <<"U", "s", "e", "r">> ELSE <<"A", "s", "s", "i", "s", "t", "a", "n", "t">>
      content == Prefix(msg.content, ContentLimit)
  IN  role \o <<":", " ">> \o content \o <<"\n">>

RECURSIVE RenderTurns(_)
RenderTurns(msgs) ==
  IF msgs = <<>> THEN <<>> ELSE RenderTurn(Head(msgs)) \o RenderTurns(Tail(msgs))

\* the builder with the slice taken after the reversal: the oldest turns
BuildContextOldest(history) ==
  IF history = <<>> THEN <<>>
  ELSE Header \o RenderTurns(Prefix(reversed(history), ContextTurns)) \o <<"\n">>

\* build_conversation_context(history)
build_conversation_context(history) ==
  IF history = <<>> THEN <<>>
  ELSE Header \o RenderTurns(reversed(Prefix(history, ContextTurns))) \o <<"\n">>

(* Inputs of the builder: histories as the store returns them, newest first,
   of up to HistoryLimit turns.  The turn with timestamp t has a content of t's
   last digit repeated, of length 251, 250 or 3 as t mod 3 is 0, 1 or 2, so
   that contents above, at and below the truncation length all occur. *)
ContentOf(t) ==
  LET len == CASE t % 3 = 0 -> ContentLimit + 1
               [] t % 3 = 1 -> ContentLimit
               [] OTHER     -> 3
  IN  [i \in 1..len |-> Digits[(t % 10) + 1]]

InitContext ==
  /\ ctx_history = <<>> /\ ctx_result = <<>> /\ ctx_done = FALSE
  /\ InitFbIdle /\ InitPgIdle /\ InitAuthIdle /\ InitSockIdle

\* a newer turn is stored: the next query returns it first
CtxNewTurn ==
  /\ Len(ctx_history) < HistoryLimit
  /\ \E role \in {"user", "assistant"} :
       ctx_history' = << [role |-> role, content |-> ContentOf(Len(ctx_history) + 1),
                         timestamp |-> Len(ctx_history) + 1] >> \o ctx_history
  /\ ctx_done' = FALSE
  /\ UNCHANGED <<ctx_result, fbVars, pgVars, authVars, sockVars>>

\* one call of the builder
CallBuildContext ==
  /\ ~ctx_done
  /\ ctx_result' = build_conversation_context(ctx_history)
  /\ ctx_done' = TRUE
  /\ UNCHANGED <<ctx_history, fbVars, pgVars, authVars, sockVars>>

NextContext == CtxNewTurn \/ CallBuildContext

SpecContext == InitContext /\ [][NextContext]_vars

\* the turns of h among the k with the greatest timestamps, oldest first
RECURSIVE OldestFirst(_, _)
OldestFirst(h, idx) ==
  IF idx = {} THEN <<>>
  ELSE LET i == CHOOSE i \in idx : \A j \in idx : h[i].timestamp <= h[j].timestamp
       IN  <<h[i]>> \o OldestFirst(h, idx \ {i})

MostRecent(h, k) ==
  OldestFirst(h, {i \in 1..Len(h) :
                    Cardinality({j \in 1..Len(h) : h[j].timestamp > h[i].timestamp}) < k})

\* the line the claim gives for a turn
ClaimedLine(t) ==
  (IF t.role = "user" THEN <<"U", "s", "e", "r", ":", " ">> ELSE <<"A", "s", "s", "i", "s", "t", "a", "n", "t", ":", " ">>)
    \o [i \in 1..(IF Len(t.content) < 250 THEN Len(t.content) ELSE 250) |-> t.content[i]]
    \o <<"\n">>

RECURSIVE ClaimedLines(_)
ClaimedLines(ts) ==
  IF ts = <<>> THEN <<>> ELSE ClaimedLine(Head(ts)) \o ClaimedLines(Tail(ts))

\* C5: the builder returns the empty string for an empty history; for a
\* non-empty history in descending-timestamp order it returns the header, then
\* one line for each of the min(8, len) most recent turns, oldest first, each
\* "User: " or "Assistant: " followed by at most the first 250 characters of
\* the content (and a closing newline); with 9 turns the oldest is omitted.
C5_ContextWindow ==
  ctx_done =>
    /\ ctx_history = <<>> => ctx_result = <<>>
    /\ ctx_history # <<>> =>
         /\ ctx_result = Header \o ClaimedLines(MostRecent(ctx_history, 8)) \o <<"\n">>
         /\ Len(MostRecent(ctx_history, 8))
              = (IF Len(ctx_history) < 8 THEN Len(ctx_history) ELSE 8)
    /\ Len(ctx_history) = 9 =>
         \A i \in 1..Len(MostRecent(ctx_history, 8)) :
           MostRecent(ctx_history, 8)[i].timestamp # 1

\* C5 witness: the context of a 9-turn history has been built, and one of the
\* turns it renders has a content longer than 250 characters.
C5_Witness ==
  /\ ctx_done /\ Len(ctx_history) = 9
  /\ \E i \in 1..8 : Len(ctx_history[i].content) > 250
  /\ Len(ctx_result) > Len(Header)

-----------------------------------------------------------------------------
(* The paginator, utils.py paginate_list *)

\* items[a:b] for 0 <= a and 0 <= b
Slice(items, a, b) == SubSeq(items, a + 1, Min(b, Len(items)))

\* the slice with the limit taken as the end index
PaginateLimitAsEnd(items, limit, offset) ==
  LET paginated == Slice(items, offset, limit)
  IN  [total |-> Len(items), limit |-> limit, offset |-> offset,
       count |-> Len(paginated), items |-> paginated]

\* paginate_list(items, limit, offset)
paginate_list(items, limit, offset) ==
  LET total     == Len(items)
      paginated == Slice(items, offset, offset + limit)
  IN  [total |-> total, limit |-> limit, offset |-> offset,
       count |-> Len(paginated), items |-> paginated]

MaxItems  == 3
MaxLimit  == 4
MaxOffset == 4

ItemValues == {"x", "y"}

InitPaginate ==
  /\ pg_items \in UNION {[1..n -> ItemValues] : n \in 0..MaxItems}
  /\ pg_limit \in 0..MaxLimit
  /\ pg_offset \in 0..MaxOffset
  /\ pg_result = <<>> /\ pg_done = FALSE
  /\ InitFbIdle /\ InitCtxIdle /\ InitAuthIdle /\ InitSockIdle

\* one call of the paginator
CallPaginate ==
  /\ ~pg_done
  /\ pg_result' = paginate_list(pg_items, pg_limit, pg_offset)
  /\ pg_done' = TRUE
  /\ UNCHANGED <<pg_items, pg_limit, pg_offset, fbVars, ctxVars, authVars, sockVars>>

NextPaginate == CallPaginate

SpecPaginate == InitPaginate /\ [][NextPaginate]_vars

\* C10: for non-negative limit L and offset O the result has total =
\* len(items), the given limit and offset, items = items[O:O+L] and count =
\* min(L, max(0, len(items) - O)); an offset at or beyond the length gives an
\* empty items list and count 0.
C10_Paginate ==
  pg_done =>
    LET n     == Len(pg_items)
        rest  == IF n - pg_offset > 0 THEN n - pg_offset ELSE 0
        count == IF pg_limit < rest THEN pg_limit ELSE rest
    IN  /\ pg_result.total = n
        /\ pg_result.limit = pg_limit
        /\ pg_result.offset = pg_offset
        /\ pg_result.count = count
        /\ pg_result.items = [i \in 1..count |-> pg_items[pg_offset + i]]
        /\ pg_offset >= n => (pg_result.items = <<>> /\ pg_result.count = 0)

\* C10 witness: a page that starts inside the list and is cut short by its
\* end has been returned.
C10_Witness ==
  /\ pg_done /\ pg_offset > 0 /\ pg_offset < Len(pg_items)
  /\ pg_offset + pg_limit > Len(pg_items)
  /\ pg_result.count > 0 /\ pg_result.count < pg_limit

-----------------------------------------------------------------------------
(* The session/identity layer, auth.py, over the user store *)

Clients == {"c1", "c2"}

MaxUsers == 2      \* signups that insert are not taken beyond this many users
MaxClock == 1      \* datetime.now() is not advanced beyond this value

MinPasswordLen == 6

LocalChars  == Range(UpperCase) \cup Range(LowerCase) \cup Range(Digits)
                 \cup {".", "_", "%", "+", "-"}
DomainChars == Range(UpperCase) \cup Range(LowerCase) \cup Range(Digits)
                 \cup {".", "-"}
Letters     == Range(UpperCase) \cup Range(LowerCase)

(* is_valid_email(email): re.match of
   ^[a-zA-Z0-9._%+-]+@[a-zA-Z0-9.-]+\.[a-zA-Z]{2,}$ ; the final $ also
   matches before one trailing newline. *)
is_valid_email(email) ==
  LET e == IF email # <<>> /\ email[Len(email)] = "\n"
           THEN SubSeq(email, 1, Len(email) - 1) ELSE email
  IN  \E p \in 2..Len(e) : \E q \in (p + 2)..(Len(e) - 2) :
        /\ e[p] = "@" /\ e[q] = "."
        /\ \A i \in 1..(p - 1) : e[i] \in LocalChars
        /\ \A i \in (p + 1)..(q - 1) : e[i] \in DomainChars
        /\ \A i \in (q + 1)..Len(e) : e[i] \in Letters

\* `not x` for a request field: None (absent) and the empty string are falsy
Falsy(x) == x = None \/ x = <<>>

(* werkzeug's generate_password_hash and check_password_hash, which the
   code treats as an opaque one-way function: the hash is the password under
   a tag (the random salt is left out), verified by hashing again. *)
generate_password_hash(password) == <<"pbkdf2:sha256">> \o password
check_password_hash(pwhash, password) == pwhash = generate_password_hash(password)

\* users_collection.find_one({field: value}): the _id of the first match, 0 for None
find_one_email(us, email) ==
  IF \E i \in 1..Len(us) : us[i].email = email
  THEN CHOOSE i \in 1..Len(us) :
         us[i].email = email /\ \A j \in 1..(i - 1) : us[j].email # email
  ELSE 0

find_one_username(us, username) ==
  IF \E i \in 1..Len(us) : us[i].username = username
  THEN CHOOSE i \in 1..Len(us) :
         us[i].username = username /\ \A j \in 1..(i - 1) : us[j].username # username
  ELSE 0

\* the bodies of the JSON responses and the redirects
ErrorBody(msg)    == [error |-> msg, success |-> FALSE, redirect |-> ""]
SuccessBody       == [error |-> "", success |-> TRUE, redirect |-> "chat"]
RedirectBody(to)  == [error |-> "", success |-> FALSE, redirect |-> to]

Response(c, op, status, body, user_data) ==
  [client |-> c, op |-> op, status |-> status, body |-> body, user_data |-> user_data]

NoResponse == Response("c1", "", 0, RedirectBody(""), 0)

SignupRequestOf(email, username, password) ==
  [email |-> email, username |-> username, password |-> password]

NoRequest == SignupRequestOf(<<>>, <<>>, <<>>)

(* The inputs of the requests.  A signup is any pair of a well-formed email
   and a username with a long enough password, or one with a malformed
   email, a missing username or a short password. *)
ValidEmails     == { <<"a", "@", "b", ".", "c", "o">>, <<"c", "@", "d", ".", "i", "o">> }
Usernames       == { <<"a", "n", "n">>, <<"b", "o", "b">> }
SignupRequests  ==
  { SignupRequestOf(e, u, <<"s", "e", "c", "r", "e", "t">>) : e \in ValidEmails, u \in Usernames }
    \cup { SignupRequestOf(<<"a", "@", "b">>, <<"a", "n", "n">>, <<"s", "e", "c", "r", "e", "t">>),
           SignupRequestOf(<<"a", "@", "b", ".", "c", "o">>, None, <<"s", "e", "c", "r", "e", "t">>),
           SignupRequestOf(<<"a", "@", "b", ".", "c", "o">>, <<"b", "o", "b">>, <<"s", "h", "o", "r", "t">>) }
LoginEmails     == ValidEmails \cup { None }
LoginPasswords  == { <<"s", "e", "c", "r", "e", "t">>, <<"w", "r", "o", "n", "g", "!">> }

InitAuth ==
  /\ users = <<>>
  /\ session = [c \in Clients |-> 0]
  /\ pc = [c \in Clients |-> "idle"]
  /\ req = [c \in Clients |-> NoRequest]
  /\ resp = NoResponse
  /\ conversations = <<>>
  /\ now = 0
  /\ gemini_model = "None"
  /\ InitFbIdle /\ InitCtxIdle /\ InitPgIdle /\ InitSockIdle

\* time passes
Tick ==
  /\ now < MaxClock
  /\ now' = now + 1
  /\ UNCHANGED <<users, session, pc, req, resp, conversations, gemini_model,
                 fbVars, ctxVars, pgVars, sockVars>>

(* What a handler step does, given the store, the user the client's session
   is bound to (0: anonymous) and the time: the store afterwards, the user
   the session is bound to afterwards, where the handler continues ("idle":
   it has returned), and the response it returns (status 0: none yet). *)
Outcome(us, login_user, next, status, body, user_data) ==
  [users |-> us, login_user |-> login_user, pc |-> next,
   status |-> status, body |-> body, user_data |-> user_data]

\* the first step with the store queried by username instead of email
SignupRequestWrongField(us, current_user, r) ==
  IF current_user # 0
    THEN Outcome(us, current_user, "idle", 302, RedirectBody("chat"), 0)
  ELSE IF Falsy(r.email) \/ Falsy(r.username) \/ Falsy(r.password)
    THEN Outcome(us, 0, "idle", 400, ErrorBody("All fields required"), 0)
  ELSE IF ~is_valid_email(r.email)
    THEN Outcome(us, 0, "idle", 400, ErrorBody("Invalid email format"), 0)
  ELSE IF Len(r.password) < MinPasswordLen
    THEN Outcome(us, 0, "idle", 400,
                 ErrorBody("Password must be at least 6 characters"), 0)
  ELSE IF find_one_username(us, r.email) # 0
    THEN Outcome(us, 0, "idle", 400, ErrorBody("Email already registered"),
                 find_one_username(us, r.email))
  ELSE Outcome(us, 0, "signup_find_username", 0, RedirectBody(""), 0)

(* signup(), POST, lines 16-42: the redirect of an authenticated client, the
   validation, and the first store read, find_one({'email': email}). *)
signup_request(us, current_user, r) ==
  IF current_user # 0
    THEN Outcome(us, current_user, "idle", 302, RedirectBody("chat"), 0)
  ELSE IF Falsy(r.email) \/ Falsy(r.username) \/ Falsy(r.password)
    THEN Outcome(us, 0, "idle", 400, ErrorBody("All fields required"), 0)
  ELSE IF ~is_valid_email(r.email)
    THEN Outcome(us, 0, "idle", 400, ErrorBody("Invalid email format"), 0)
  ELSE IF Len(r.password) < MinPasswordLen
    THEN Outcome(us, 0, "idle", 400,
                 ErrorBody("Password must be at least 6 characters"), 0)
  ELSE IF find_one_email(us, r.email) # 0
    THEN Outcome(us, 0, "idle", 400, ErrorBody("Email already registered"),
                 find_one_email(us, r.email))
  ELSE Outcome(us, 0, "signup_find_username", 0, RedirectBody(""), 0)

\* signup(), lines 44-45: the second store read, find_one({'username': username})
signup_find_username(us, current_user, r) ==
  IF find_one_username(us, r.username) # 0
    THEN Outcome(us, current_user, "idle", 400, ErrorBody("Username already taken"),
                 find_one_username(us, r.username))
  ELSE Outcome(us, current_user, "signup_insert", 0, RedirectBody(""), 0)

\* the user document signup() builds, lines 48-56 (created_at, which is
\* written here and never read or updated, is left out)
user_data_of(r, t) ==
  [email |-> r.email, username |-> r.username,
   password |-> generate_password_hash(r.password),
   is_online |-> FALSE, last_seen |-> t, is_typing |-> FALSE]

\* signup(), lines 58-67: insert_one, login_user and the success response
signup_insert(us, current_user, r, t) ==
  Outcome(Append(us, user_data_of(r, t)), Len(us) + 1, "idle", 200, SuccessBody,
          Len(us) + 1)

\* login() with a message of its own for an unknown email
LoginDistinctErrors(us, current_user, email, password, t) ==
  LET user_data == find_one_email(us, email)
  IN  IF current_user # 0
        THEN Outcome(us, current_user, "idle", 302, RedirectBody("chat"), 0)
      ELSE IF user_data = 0
        THEN Outcome(us, 0, "idle", 401, ErrorBody("No account with this email"), 0)
      ELSE IF ~check_password_hash(us[user_data].password, password)
        THEN Outcome(us, 0, "idle", 401, ErrorBody("Invalid email or password"),
                     user_data)
      ELSE Outcome([us EXCEPT ![user_data].is_online = TRUE,
                              ![user_data].last_seen = t],
                   user_data, "idle", 200, SuccessBody, user_data)

\* login(), POST, lines 73-108
login(us, current_user, email, password, t) ==
  LET user_data == find_one_email(us, email)
  IN  IF current_user # 0
        THEN Outcome(us, current_user, "idle", 302, RedirectBody("chat"), 0)
      ELSE IF user_data = 0
        THEN Outcome(us, 0, "idle", 401, ErrorBody("Invalid email or password"), 0)
      ELSE IF ~check_password_hash(us[user_data].password, password)
        THEN Outcome(us, 0, "idle", 401, ErrorBody("Invalid email or password"),
                     user_data)
      ELSE Outcome([us EXCEPT ![user_data].is_online = TRUE,
                              ![user_data].last_seen = t],
                   user_data, "idle", 200, SuccessBody, user_data)

\* logout() without the last_seen stamp
LogoutNoStamp(us, current_user, t) ==
  IF current_user = 0
    THEN Outcome(us, 0, "idle", 302, RedirectBody("auth.login"), 0)
  ELSE Outcome([us EXCEPT ![current_user].is_online = FALSE],
               0, "idle", 302, RedirectBody("auth.login"), current_user)

\* logout(), lines 112-124: @login_required sends an anonymous client to the
\* login view; otherwise update_one, logout_user and the redirect
logout(us, current_user, t) ==
  IF current_user = 0
    THEN Outcome(us, 0, "idle", 302, RedirectBody("auth.login"), 0)
  ELSE Outcome([us EXCEPT ![current_user].is_online = FALSE,
                          ![current_user].last_seen = t],
               0, "idle", 302, RedirectBody("auth.login"), current_user)

\* a handler step of client c with outcome out takes effect
Apply(c, op, out, r) ==
  /\ users' = out.users
  /\ session' = [session EXCEPT ![c] = out.login_user]
  /\ pc' = [pc EXCEPT ![c] = out.pc]
  /\ req' = [req EXCEPT ![c] = IF out.pc = "idle" THEN NoRequest ELSE r]
  /\ resp' = IF out.status = 0 THEN resp
             ELSE Response(c, op, out.status, out.body, out.user_data)
  /\ UNCHANGED <<conversations, now, gemini_model, fbVars, ctxVars, pgVars, sockVars>>

SignupRequest(c, r) ==
  /\ pc[c] = "idle"
  /\ Apply(c, "signup", signup_request(users, session[c], r), r)

SignupFindUsername(c) ==
  /\ pc[c] = "signup_find_username"
  /\ Apply(c, "signup", signup_find_username(users, session[c], req[c]), req[c])

SignupInsert(c) ==
  /\ pc[c] = "signup_insert"
  /\ Len(users) < MaxUsers
  /\ Apply(c, "signup", signup_insert(users, session[c], req[c], now), req[c])

Login(c, email, password) ==
  /\ pc[c] = "idle"
  /\ Apply(c, "login", login(users, session[c], email, password, now), NoRequest)

Logout(c) ==
  /\ pc[c] = "idle"
  /\ Apply(c, "logout", logout(users, session[c], now), NoRequest)

Next ==
  \/ Tick
  \/ \E c \in Clients : \E r \in SignupRequests : SignupRequest(c, r)
  \/ \E c \in Clients : SignupFindUsername(c)
  \/ \E c \in Clients : SignupInsert(c)
  \/ \E c \in Clients : \E email \in LoginEmails : \E password \in LoginPasswords :
       Login(c, email, password)
  \/ \E c \in Clients : Logout(c)

Spec == InitAuth /\ [][Next]_vars

-----------------------------------------------------------------------------
(* Claims about the session/identity layer, checked under Spec.  Each is
   stated of every handler step that can be taken in a reachable state: of
   the outcome the step has there. *)

EmailRegistered(e) == \E i \in 1..Len(users) : users[i].email = e

\* C6: a signup POST by an anonymous client whose email is that of an existing
\* user is rejected with status 400 whatever the username (and password) is,
\* and the rejection leaves the user store unchanged and the session anonymous.
C6_DuplicateEmailRejected ==
  \A c \in Clients : \A r \in SignupRequests :
    (pc[c] = "idle" /\ session[c] = 0 /\ EmailRegistered(r.email)) =>
       LET out == signup_request(users, session[c], r)
       IN  /\ out.status = 400
           /\ out.pc = "idle"
           /\ out.users = users
           /\ out.login_user = 0

\* C6 witness: a signup with a registered email has been rejected, and the
\* client that sent it is anonymous.
C6_Witness ==
  /\ resp.op = "signup" /\ resp.status = 400
  /\ resp.body.error = "Email already registered"
  /\ resp.user_data \in 1..Len(users)
  /\ session[resp.client] = 0

\* the two failing logins of the claim
WrongPassword(e, p) ==
  /\ EmailRegistered(e)
  /\ \A i \in 1..Len(users) :
       users[i].email = e => ~check_password_hash(users[i].password, p)

NoSuchUser(e) == ~EmailRegistered(e)

\* C7: a login POST with an existing email and a wrong password gets exactly
\* the response (status 401 and error message) of a login POST with an email
\* that matches no user; neither modifies a user record or binds the session.
C7_LoginNoLeak ==
  \A c \in Clients : \A e1 \in LoginEmails : \A p1 \in LoginPasswords :
    \A e2 \in LoginEmails : \A p2 \in LoginPasswords :
      (pc[c] = "idle" /\ session[c] = 0 /\ WrongPassword(e1, p1) /\ NoSuchUser(e2)) =>
         LET wrong   == login(users, session[c], e1, p1, now)
             unknown == login(users, session[c], e2, p2, now)
         IN  /\ wrong.status = 401 /\ unknown.status = 401
             /\ wrong.body = unknown.body
             /\ wrong.users = users /\ unknown.users = users
             /\ wrong.login_user = 0 /\ unknown.login_user = 0

\* C7 witness: a login with a registered email and a wrong password has been
\* answered 401 while another email is still unregistered.
C7_Witness ==
  /\ resp.op = "login" /\ resp.status = 401 /\ resp.user_data \in 1..Len(users)
  /\ session[resp.client] = 0
  /\ \E e \in LoginEmails : NoSuchUser(e)

\* C8: no two user records share an email and no two share a username, after
\* any sequence of signup requests, interleaved ones included.
C8_UniqueUsers ==
  \A i \in 1..Len(users) : \A j \in 1..Len(users) :
    i # j => (users[i].email # users[j].email /\ users[i].username # users[j].username)

\* C9: the session goes Anonymous -> (successful signup or login) ->
\* Authenticated -> (logout) -> Anonymous: a successful signup or login binds
\* the session to that user; a logout makes it anonymous, sets that user's
\* is_online to false and stamps last_seen; a failed signup or login leaves the
\* session anonymous; a logout without a session changes no user record.
C9_SessionLifecycle ==
  \A c \in Clients :
    /\ (pc[c] = "idle" /\ session[c] = 0) =>
         /\ \A e \in LoginEmails : \A p \in LoginPasswords :
              LET out == login(users, session[c], e, p, now)
              IN  IF out.status = 200
                  THEN /\ out.login_user \in 1..Len(out.users)
                       /\ out.users[out.login_user].email = e
                       /\ check_password_hash(out.users[out.login_user].password, p)
                  ELSE out.login_user = 0
         /\ \A r \in SignupRequests :
              LET out == signup_request(users, session[c], r)
              IN  out.status # 200 /\ out.login_user = 0
         /\ LET out == logout(users, session[c], now)
            IN  out.users = users /\ out.login_user = 0
    /\ pc[c] = "signup_find_username" =>
         LET out == signup_find_username(users, session[c], req[c])
         IN  out.status # 200 /\ out.login_user = 0
    /\ pc[c] = "signup_insert" =>
         LET out == signup_insert(users, session[c], req[c], now)
         IN  /\ out.status = 200
             /\ out.login_user = Len(out.users)
             /\ out.users[out.login_user].email = req[c].email
             /\ out.users[out.login_user].username = req[c].username
    /\ (pc[c] = "idle" /\ session[c] # 0) =>
         /\ LET out == logout(users, session[c], now)
            IN  /\ out.login_user = 0
                /\ out.users[session[c]].is_online = FALSE
                /\ out.users[session[c]].last_seen = now
         /\ \A e \in LoginEmails : \A p \in LoginPasswords :
              login(users, session[c], e, p, now).login_user = session[c]
         /\ \A r \in SignupRequests :
              signup_request(users, session[c], r).login_user = session[c]

\* C9 witness: an authenticated client has logged out at a later time than
\* its user was last stamped, and its user is offline with last_seen stamped.
C9_Witness ==
  /\ resp.op = "logout" /\ resp.user_data \in 1..Len(users)
  /\ session[resp.client] = 0
  /\ now > 0
  /\ users[resp.user_data].is_online = FALSE
  /\ users[resp.user_data].last_seen = now

-----------------------------------------------------------------------------
(* The chat endpoint and the completion gateway, index.py chat_message and
   get_gemini_response, over the conversation store *)

MaxTurns == 4      \* chat requests are not taken beyond this many stored turns

\* the user store after two signups
RegisteredUsers ==
  << user_data_of(SignupRequestOf(<<"a", "@", "b", ".", "c", "o">>, <<"a", "n", "n">>, <<"s", "e", "c", "r", "e", "t">>), 0),
     user_data_of(SignupRequestOf(<<"c", "@", "d", ".", "i", "o">>, <<"b", "o", "b">>, <<"s", "e", "c", "r", "e", "t">>), 0) >>

\* the `message` field of the request body; None when the body has none
ChatMessages == { None, <<"h", "i">>, <<"2", " ", "+", " ", "2">> }

\* what gemini_model.generate_content(...).text does: it raises, or gives a text
GatewayOutcomes ==
  { [raises |-> TRUE,  text |-> <<>>],
    [raises |-> FALSE, text |-> <<" ", "S", "u", "r", "e", ".", " ">>] }

\* datetime.now(ist).hour at the model's clock value t
HourAt(t) == (9 + 8 * t) % 24

(* get_gemini_response(message, history) with the module's gemini_model and
   the outcome of the external call.  An unconfigured model goes straight to
   the fallback responder; otherwise the prompt is built inside the try block,
   where message[:60] raises TypeError on None, and every exception there is
   answered by the fallback responder, outside the try block. *)
get_gemini_response(model, message, history, outcome, hour, pick) ==
  IF model = "None" \/ message = None \/ outcome.raises
  THEN get_smart_fallback(message, hour, pick)
  ELSE Answer("gemini", "", strip(outcome.text), NoValue, 0)

\* how the completion call of a request ended
GatewayState(model, message, outcome) ==
  IF model = "None" THEN "unconfigured"
  ELSE IF message = None THEN "prompt_raised"
  ELSE IF outcome.raises THEN "call_raised"
  ELSE "completed"

\* the orders of the turns with indices in S by descending timestamp, turns
\* of equal timestamp in any order
RECURSIVE DescendingOrders(_, _)
DescendingOrders(convs, S) ==
  IF S = {} THEN {<<>>}
  ELSE UNION { { <<convs[i]>> \o rest : rest \in DescendingOrders(convs, S \ {i}) } :
               i \in {j \in S : \A k \in S : convs[j].timestamp >= convs[k].timestamp} }

\* the history query without its user_id filter
FindHistoryAnyUser(convs, uid) ==
  { Prefix(h, HistoryLimit) : h \in DescendingOrders(convs, 1..Len(convs)) }

(* conversations_collection.find({'user_id': uid}).sort('timestamp', -1)
   .limit(10): the user's turns by descending timestamp, cut to HistoryLimit. *)
find_history(convs, uid) ==
  { Prefix(h, HistoryLimit) :
      h \in DescendingOrders(convs, {i \in 1..Len(convs) : convs[i].user_id = uid}) }

HistoryPageLimit == 50     \* .limit(50) of the history endpoint

\* the same orders by ascending timestamp
RECURSIVE AscendingOrders(_, _)
AscendingOrders(convs, S) ==
  IF S = {} THEN {<<>>}
  ELSE UNION { { <<convs[i]>> \o rest : rest \in AscendingOrders(convs, S \ {i}) } :
               i \in {j \in S : \A k \in S : convs[j].timestamp <= convs[k].timestamp} }

(* get_history(): conversations_collection.find({'user_id': uid})
   .sort('timestamp', 1).limit(50), the lists the endpoint can return *)
get_history(convs, uid) ==
  { Prefix(h, HistoryPageLimit) :
      h \in AscendingOrders(convs, {i \in 1..Len(convs) : convs[i].user_id = uid}) }

\* the response of the history endpoint: jsonify({'messages': messages})
HistoryResponse(c, uid, messages) ==
  [client |-> c, op |-> "history", status |-> 200,
   body |-> [error |-> "", success |-> TRUE, redirect |-> "", messages |-> messages],
   user_data |-> uid]

Turn(uid, role, content, t) ==
  [user_id |-> uid, role |-> role, content |-> content, timestamp |-> t]

ChatBody(bot_response) ==
  [error |-> "", success |-> TRUE, redirect |-> "", response |-> bot_response]

\* the response of the chat endpoint, with what the handler was asked, how
\* its completion call ended and the turns it stored
ChatResponse(c, status, body, uid, message, gateway, stored) ==
  [client |-> c, op |-> "chat", status |-> status, body |-> body, user_data |-> uid,
   message |-> message, gateway |-> gateway, stored |-> stored]

ChatRequestOf(message, bot_response, history, gateway) ==
  [message |-> message, bot_response |-> bot_response, history |-> history,
   gateway |-> gateway, stored |-> <<>>]

InitChat ==
  /\ users = RegisteredUsers
  /\ session \in [Clients -> 0..Len(RegisteredUsers)]
  /\ pc = [c \in Clients |-> "idle"]
  /\ req = [c \in Clients |-> NoRequest]
  /\ resp = NoResponse
  /\ conversations = <<>>
  /\ now = 0
  /\ gemini_model \in {"configured", "None"}
  /\ InitFbIdle /\ InitCtxIdle /\ InitPgIdle /\ InitSockIdle

InFlight == {c \in Clients : pc[c] # "idle"}

(* chat_message(), lines 84-94: @login_required, the history query and the
   completion gateway.  An exception that leaves get_gemini_response is
   answered 500 and nothing is stored. *)
ChatRequest(c, message, outcome, pick) ==
  /\ pc[c] = "idle"
  /\ Len(conversations) + 2 * Cardinality(InFlight) + 2 <= MaxTurns
  /\ IF session[c] = 0
       THEN /\ resp' = Response(c, "chat", 302, RedirectBody("auth.login"), 0)
            /\ UNCHANGED <<pc, req>>
       ELSE \E history \in find_history(conversations, session[c]) :
            \E bot_response \in {get_gemini_response(gemini_model, message, history,
                                                      outcome, HourAt(now), pick)} :
              LET gateway == GatewayState(gemini_model, message, outcome)
              IN  IF bot_response.raises
                  THEN /\ resp' = ChatResponse(c, 500, ErrorBody("Internal Server Error"),
                                               session[c], message, gateway, <<>>)
                       /\ UNCHANGED <<pc, req>>
                  ELSE /\ pc' = [pc EXCEPT ![c] = "chat_insert_user"]
                       /\ req' = [req EXCEPT ![c] =
                                    ChatRequestOf(message, bot_response, history, gateway)]
                       /\ UNCHANGED resp
  /\ UNCHANGED <<users, session, conversations, now, gemini_model,
                 fbVars, ctxVars, pgVars, sockVars>>

\* chat_message(), lines 97-102: the user's turn is stored
ChatInsertUser(c) ==
  /\ pc[c] = "chat_insert_user"
  /\ LET turn == Turn(session[c], "user", req[c].message, now)
     IN  /\ conversations' = Append(conversations, turn)
         /\ req' = [req EXCEPT ![c].stored = Append(@, turn)]
  /\ pc' = [pc EXCEPT ![c] = "chat_insert_assistant"]
  /\ UNCHANGED <<users, session, resp, now, gemini_model, fbVars, ctxVars, pgVars, sockVars>>

\* chat_message(), lines 104-114: the assistant's turn is stored and the
\* response returned
ChatInsertAssistant(c) ==
  /\ pc[c] = "chat_insert_assistant"
  /\ LET turn == Turn(session[c], "assistant", req[c].bot_response, now)
     IN  /\ conversations' = Append(conversations, turn)
         /\ resp' = ChatResponse(c, 200, ChatBody(req[c].bot_response), session[c],
                                 req[c].message, req[c].gateway,
                                 Append(req[c].stored, turn))
  /\ pc' = [pc EXCEPT ![c] = "idle"]
  /\ req' = [req EXCEPT ![c] = NoRequest]
  /\ UNCHANGED <<users, session, now, gemini_model, fbVars, ctxVars, pgVars, sockVars>>

\* get_history(), lines 300-310: @login_required and the query
History(c) ==
  /\ pc[c] = "idle"
  /\ IF session[c] = 0
       THEN resp' = Response(c, "history", 302, RedirectBody("auth.login"), 0)
       ELSE \E messages \in get_history(conversations, session[c]) :
              resp' = HistoryResponse(c, session[c], messages)
  /\ UNCHANGED <<users, session, pc, req, conversations, now, gemini_model,
                 fbVars, ctxVars, pgVars, sockVars>>

NextChat ==
  \/ Tick
  \/ \E c \in Clients : \E message \in ChatMessages : \E outcome \in GatewayOutcomes :
       \E pick \in 0..(Len(ThanksResponses) - 1) : ChatRequest(c, message, outcome, pick)
  \/ \E c \in Clients : ChatInsertUser(c)
  \/ \E c \in Clients : ChatInsertAssistant(c)
  \/ \E c \in Clients : History(c)

SpecChat == InitChat /\ [][NextChat]_vars

\* C1: every authenticated POST to the chat endpoint whose completion call
\* fails (it raises, or the model is unconfigured) completes with HTTP 200 and
\* a non-empty response from the fallback responder, and stores exactly two
\* turns for that user: the user's message, then the assistant's response.
C1_FallbackEngaged ==
  (resp.op = "chat" /\ resp.user_data # 0
     /\ resp.gateway \in {"unconfigured", "call_raised"}) =>
       /\ resp.status = 200
       /\ resp.body.response.text # ""
       /\ Len(resp.stored) = 2
       /\ resp.stored[1].user_id = resp.user_data /\ resp.stored[1].role = "user"
       /\ resp.stored[1].content = resp.message
       /\ resp.stored[2].user_id = resp.user_data /\ resp.stored[2].role = "assistant"
       /\ resp.stored[2].content = resp.body.response

-----------------------------------------------------------------------------
(* The presence notifier, index.py handle_connect, handle_disconnect,
   handle_typing_start and handle_typing_stop, over the push channel.

   A connection carries the user its session was bound to when it was opened
   (0: anonymous); that is the current_user of every event it sends.  An
   emit with room=r is delivered to the connections that joined r, an emit
   with broadcast=True to every open connection. *)

Sids == {"s1", "s2", "s3"}

Closed == [open |-> FALSE, user |-> 0]

Opened(current_user) == [open |-> TRUE, user |-> current_user]

OpenConnections(conns) == {s \in Sids : conns[s].open}

\* emit(name, payload, room=room) and emit(name, payload, broadcast=True),
\* with the connections the event is delivered to; room 0: no room given
Event(name, payload, room, broadcast, to) ==
  [name |-> name, payload |-> payload, room |-> room, broadcast |-> broadcast,
   to |-> to]

\* what a handler does: the store and the rooms afterwards, and its emits
SockOutcome(us, rms, emits) == [users |-> us, rooms |-> rms, emits |-> emits]

NoEvents == [by |-> "", handler |-> "", events |-> <<>>]

\* handle_connect()
handle_connect(us, rms, conns, sid, current_user) ==
  IF current_user # 0
  THEN SockOutcome([us EXCEPT ![current_user].is_online = TRUE],
                   [rms EXCEPT ![current_user] = @ \cup {sid}],
                   << Event("user_online",
                            [user_id |-> current_user,
                             username |-> us[current_user].username],
                            0, TRUE, OpenConnections(conns)) >>)
  ELSE SockOutcome(us, rms, <<>>)

\* handle_disconnect()
handle_disconnect(us, rms, conns, current_user, t) ==
  IF current_user # 0
  THEN SockOutcome([us EXCEPT ![current_user].is_online = FALSE,
                              ![current_user].last_seen = t],
                   rms,
                   << Event("user_offline",
                            [user_id |-> current_user, last_seen |-> t],
                            0, TRUE, OpenConnections(conns)) >>)
  ELSE SockOutcome(us, rms, <<>>)

\* handle_typing_start() with the event sent to every connection
TypingStartBroadcast(us, rms, conns, current_user) ==
  IF current_user # 0
  THEN SockOutcome(us, rms,
                   << Event("bot_typing", [typing |-> TRUE], 0, TRUE,
                            OpenConnections(conns)) >>)
  ELSE SockOutcome(us, rms, <<>>)

\* handle_typing_start()
handle_typing_start(us, rms, conns, current_user) ==
  IF current_user # 0
  THEN SockOutcome(us, rms,
                   << Event("bot_typing", [typing |-> TRUE], current_user, FALSE,
                            rms[current_user]) >>)
  ELSE SockOutcome(us, rms, <<>>)

\* handle_typing_stop()
handle_typing_stop(us, rms, conns, current_user) ==
  IF current_user # 0
  THEN SockOutcome(us, rms,
                   << Event("bot_typing", [typing |-> FALSE], current_user, FALSE,
                            rms[current_user]) >>)
  ELSE SockOutcome(us, rms, <<>>)

InitPresence ==
  /\ users = RegisteredUsers
  /\ session \in [Clients -> 0..Len(RegisteredUsers)]
  /\ pc = [c \in Clients |-> "idle"]
  /\ req = [c \in Clients |-> NoRequest]
  /\ resp = NoResponse
  /\ conversations = <<>>
  /\ now = 0
  /\ gemini_model = "None"
  /\ connections = [s \in Sids |-> Closed]
  /\ rooms = [u \in 1..Len(RegisteredUsers) |-> {}]
  /\ emitted = NoEvents
  /\ InitFbIdle /\ InitCtxIdle /\ InitPgIdle

\* time passes
PresenceTick ==
  /\ now < MaxClock
  /\ now' = now + 1
  /\ UNCHANGED <<users, session, pc, req, resp, conversations, gemini_model,
                 fbVars, ctxVars, pgVars, sockVars>>

\* a handler of connection sid with outcome out takes effect
SockApply(sid, handler, out) ==
  /\ users' = out.users
  /\ emitted' = [by |-> sid, handler |-> handler, events |-> out.emits]
  /\ UNCHANGED <<session, pc, req, resp, conversations, now, gemini_model,
                 fbVars, ctxVars, pgVars>>

\* client c opens connection sid: the connect event
Connect(sid, c) ==
  /\ ~connections[sid].open
  /\ connections' = [connections EXCEPT ![sid] = Opened(session[c])]
  /\ LET out == handle_connect(users, rooms, connections', sid, session[c])
     IN  rooms' = out.rooms /\ SockApply(sid, "connect", out)

\* connection sid closes: the disconnect event, after which the channel
\* takes the connection out of every room
Disconnect(sid) ==
  /\ connections[sid].open
  /\ LET out == handle_disconnect(users, rooms, connections,
                                  connections[sid].user, now)
     IN  /\ rooms' = [u \in DOMAIN out.rooms |-> out.rooms[u] \ {sid}]
         /\ SockApply(sid, "disconnect", out)
  /\ connections' = [connections EXCEPT ![sid] = Closed]

TypingStart(sid) ==
  /\ connections[sid].open
  /\ LET out == handle_typing_start(users, rooms, connections, connections[sid].user)
     IN  rooms' = out.rooms /\ SockApply(sid, "typing_start", out)
  /\ UNCHANGED connections

TypingStop(sid) ==
  /\ connections[sid].open
  /\ LET out == handle_typing_stop(users, rooms, connections, connections[sid].user)
     IN  rooms' = out.rooms /\ SockApply(sid, "typing_stop", out)
  /\ UNCHANGED connections

NextPresence ==
  \/ PresenceTick
  \/ \E sid \in Sids : \E c \in Clients : Connect(sid, c)
  \/ \E sid \in Sids : Disconnect(sid)
  \/ \E sid \in Sids : TypingStart(sid)
  \/ \E sid \in Sids : TypingStop(sid)

SpecPresence == InitPresence /\ [][NextPresence]_vars

-----------------------------------------------------------------------------
(* Claims about the presence notifier, checked under SpecPresence *)

\* the one event of a typing handler's outcome is bot_typing with the given
\* flag, sent to the room of user u alone and received by u's connections only
TypingToOwnGroup(out, u, flag) ==
  /\ Len(out.emits) = 1
  /\ out.emits[1].name = "bot_typing"
  /\ out.emits[1].payload = [typing |-> flag]
  /\ ~out.emits[1].broadcast
  /\ out.emits[1].room = u
  /\ \A s \in out.emits[1].to : connections[s].open /\ connections[s].user = u
  /\ out.users = users

\* C11: a typing_start or typing_stop event from an authenticated connection
\* publishes bot_typing carrying true (start) or false (stop) only to the
\* acting user's own group, never to another user's group or as a broadcast,
\* and changes no user record; from an unauthenticated connection the events
\* publish nothing.
C11_TypingOwnGroup ==
  \A sid \in Sids :
    connections[sid].open =>
      LET u     == connections[sid].user
          start == handle_typing_start(users, rooms, connections, u)
          stop  == handle_typing_stop(users, rooms, connections, u)
      IN  IF u # 0
          THEN /\ TypingToOwnGroup(start, u, TRUE)
               /\ TypingToOwnGroup(stop, u, FALSE)
               /\ sid \in start.emits[1].to /\ sid \in stop.emits[1].to
          ELSE /\ start.emits = <<>> /\ start.users = users
               /\ stop.emits = <<>> /\ stop.users = users

\* C11 witness: a user with two open connections has sent typing_start while
\* another user's connection was open; both of its connections and not the
\* other user's got the event.
C11_Witness ==
  /\ emitted.handler = "typing_start" /\ Len(emitted.events) = 1
  /\ connections[emitted.by].user # 0
  /\ Cardinality(emitted.events[1].to) = 2
  /\ \E s \in Sids :
       /\ connections[s].open
       /\ connections[s].user \notin {0, connections[emitted.by].user}
       /\ s \notin emitted.events[1].to

\* C13: a user's is_online flag is false only when that user has no open
\* connection; with two open connections of one user, closing one does not
\* leave the user marked offline while the other is open.
C13_OnlineWhileConnected ==
  \A u \in 1..Len(users) :
    users[u].is_online = FALSE =>
      ~\E s \in Sids : connections[s].open /\ connections[s].user = u
-----------------------------------------------------------------------------
(* Claims about the conversation store, checked under SpecChat *)

OwnTurns(turns, uid) == \A i \in 1..Len(turns) : turns[i].user_id = uid

\* what every reachable state shows of the isolation: the history a chat
\* request of an authenticated client would be given, the history a request
\* in flight was given, the list the history endpoint would return and has
\* returned, and the turns a request has stored
C12_Reads ==
  /\ \A c \in Clients :
       /\ (pc[c] = "idle" /\ session[c] # 0) =>
            /\ \A h \in find_history(conversations, session[c]) : OwnTurns(h, session[c])
            /\ \A m \in get_history(conversations, session[c]) : OwnTurns(m, session[c])
       /\ pc[c] # "idle" =>
            /\ OwnTurns(req[c].history, session[c])
            /\ OwnTurns(req[c].stored, session[c])
  /\ (resp.op = "history" /\ resp.status = 200) =>
       OwnTurns(resp.body.messages, resp.user_data)
  /\ (resp.op = "chat" /\ resp.status = 200) => OwnTurns(resp.stored, resp.user_data)

\* every step that changes the store appends one turn, under the user id of a
\* client whose chat request takes that step
C12_Writes ==
  conversations' # conversations =>
    /\ Len(conversations') = Len(conversations) + 1
    /\ SubSeq(conversations', 1, Len(conversations)) = conversations
    /\ \E c \in Clients :
         /\ pc[c] \in {"chat_insert_user", "chat_insert_assistant"}
         /\ pc'[c] # pc[c]
         /\ session[c] # 0
         /\ conversations'[Len(conversations')].user_id = session[c]

\* C12: conversation data is isolated per user: the history passed to the
\* completion gateway for a chat request and the list the history endpoint
\* returns hold only turns whose user id is the requesting user's, and a chat
\* request adds turns only under the requesting user's id.
C12_Isolation == []C12_Reads /\ [][C12_Writes]_vars

\* C12 witness: the history endpoint has returned a user's two turns while the
\* store also holds another user's turns, which a chat request by the first
\* user would not be given either.
C12_Witness ==
  /\ resp.op = "history" /\ resp.status = 200
  /\ Len(resp.body.messages) = 2
  /\ \E i \in 1..Len(conversations) : conversations[i].user_id # resp.user_data
  /\ session[resp.client] = resp.user_data /\ pc[resp.client] = "idle"
  /\ \A h \in find_history(conversations, resp.user_data) :
       Len(h) = 2 /\ Len(h) < Len(conversations)

\* the turns of user uid in insertion order
RECURSIVE TurnsOf(_, _)
TurnsOf(convs, uid) ==
  IF convs = <<>> THEN <<>>
  ELSE IF Head(convs).user_id = uid
    THEN <<Head(convs)>> \o TurnsOf(Tail(convs), uid)
  ELSE TurnsOf(Tail(convs), uid)

\* the replies the completion gateway can give to a message
Replies(message) ==
  { get_gemini_response(gemini_model, message, <<>>, outcome, HourAt(t), pick) :
      outcome \in GatewayOutcomes, t \in 0..MaxClock,
      pick \in 0..(Len(ThanksResponses) - 1) }

\* C14: once the chat requests of a user have completed, handlers that
\* interleaved included, the user's stored turns in insertion order strictly
\* alternate user, assistant, and each assistant turn is the reply to the
\* user turn stored immediately before it.
C14_Alternation ==
  \A uid \in 1..Len(users) :
    (\A c \in Clients : session[c] = uid => pc[c] = "idle") =>
      LET turns == TurnsOf(conversations, uid)
      IN  \A i \in 1..Len(turns) :
            IF i % 2 = 1
            THEN turns[i].role = "user"
            ELSE /\ turns[i].role = "assistant"
                 /\ turns[i - 1].role = "user"
                 /\ turns[i].content \in Replies(turns[i - 1].content)
====
